---- MODULE Spec2Model ----
(***************************************************************************)
(* A model of the MCP tool-calling core of ashishaidemos022/voiceaiagent:  *)
(*   - the persistent-session JSON-RPC client (src/lib/mcp-client.ts) and  *)
(*     the route that awaits it (src/app/api/mcp/execute/route.ts);        *)
(*   - the per-call HTTP routes, with their event-stream reader            *)
(*     (src/unnamed/part_001 .. part_004, src/app/api/mcp/tools/route.ts,  *)
(*     src/app/api/mcp/test/route.ts);                                     *)
(*   - the argument normalizer (src/lib/mcp-normalizer.ts) and the         *)
(*     required-field check the execute routes put after it.               *)
(* Four specifications share the module: Spec (the socket client),         *)
(* SpecHttp (one HTTP call), SpecNorm (normalize, then dispatch) and       *)
(* SpecFn (the pure functions, each called on one input).                  *)
(***************************************************************************)
EXTENDS Integers, Sequences, FiniteSets, TLC

\* ------------------------------------------------------------------ bounds
\* Calls made on one client.
MaxCalls == 2
\* Inbound socket messages in flight at once.
MaxInflight == 2

\* --------------------------------------------------------------- variables
VARIABLES
  \* --- MCPClient (src/lib/mcp-client.ts)
  wsState,     \* readyState of this.ws: "CONNECTING", "OPEN" or "CLOSED"
  counter,     \* this.counter
  pending,     \* this.pending: id |-> the resolver (the index of its call)
  ready,       \* the promise of waitForReady: "waiting", "resolved", "rejected"
  calls,       \* the calls made so far: id, state, the message resolved with
  wire,        \* the ids of the requests written to the socket
  inbox,       \* messages from the server, not yet handed to the listener
  handled,     \* the message the listener was last called with
  \* --- one per-call HTTP request (the POST handlers of the routes)
  hRoute,      \* the handler that runs
  hStatus,     \* response.status
  hCtype,      \* the declared content kind: "sse", "json" or "other"
  hBody,       \* the bytes of the response body
  hPos,        \* how many of them reader.read() has delivered
  hBuffer,     \* buffer: the carried-over partial line
  hLast,       \* lastJSON / finalJSON
  hPend,       \* the decoder holds the first byte of a two-byte character
  hPc,         \* "idle", "reading" (in the read loop), "body", "done"
  hOutcome,    \* what the handler answers
  \* --- an execute handler up to its fetch (normalize, check, dispatch)
  nVariant,    \* the handler that runs
  nSchema,     \* the stored parameters_schema of the tool
  nRaw,        \* the entries of the caller's parameters, in their order
  nResult,     \* what normalizeMCPArguments returned
  nSent,       \* fetch was called
  nOutcome,    \* the answer, when the handler answers without a fetch
  nPc,         \* "idle", "start", "fetching" or "done"
  \* --- the pure functions of the routes and of the normalizer, called on
  \* --- one input
  fOp,         \* the function that is called, "idle" when none is
  fArg,        \* its arguments
  fOuts        \* what its invocations returned, in their order

wsVars == <<wsState, counter, pending, ready, calls, wire, inbox, handled>>

httpVars == <<hRoute, hStatus, hCtype, hBody, hPos, hBuffer, hLast, hPend,
              hPc, hOutcome>>

normVars == <<nVariant, nSchema, nRaw, nResult, nSent, nOutcome, nPc>>

fnVars == <<fOp, fArg, fOuts>>

vars == <<wsState, counter, pending, ready, calls, wire, inbox, handled,
          hRoute, hStatus, hCtype, hBody, hPos, hBuffer, hLast, hPend,
          hPc, hOutcome,
          nVariant, nSchema, nRaw, nResult, nSent, nOutcome, nPc,
          fOp, fArg, fOuts>>

\* ------------------------------------------------------------- MCPClient

\* The value of a missing id: `!data.id` is true of undefined and of "".
NoId == ""

\* The id send allocates: the template string of the incremented counter.
IdOf(n) == ToString(n)

\* Ids a server may put on an inbound message: every id a call can get, one
\* that no call gets, and none.
InboundIds == {IdOf(i) : i \in 1..(MaxCalls + 1)} \cup {NoId}

\* Inbound envelopes: {id, result} or {id, error}.
Messages == [id : InboundIds, kind : {"result", "error"}]

NoMsg == [id |-> NoId, kind |-> "none"]

\* A lookup that takes the oldest resolver still pending, whatever the key:
\* replies taken in the order of the calls.
MapGetOldest(map, key) ==
  IF DOMAIN map = {} THEN 0
  ELSE map[CHOOSE k \in DOMAIN map : \A j \in DOMAIN map : map[k] <= map[j]]

\* Map.get: the resolver stored under the key, or none (0).
MapGet(map, key) == IF key \in DOMAIN map THEN map[key] ELSE 0

\* Map.set
MapSet(map, key, val) ==
  [k \in DOMAIN map \cup {key} |-> IF k = key THEN val ELSE map[k]]

\* A delete that leaves the entry where it is.
MapDeleteKeeps(map, key) == map

\* Map.delete
MapDelete(map, key) == [k \in DOMAIN map \ {key} |-> map[k]]

InitClient ==
  /\ wsState = "CONNECTING"
  /\ counter = 0
  /\ pending = <<>>
  /\ ready = "waiting"
  /\ calls = <<>>
  /\ wire = {}
  /\ inbox = {}
  /\ handled = NoMsg

\* The socket opens: the once("open") handler resolves waitForReady.
SocketOpen ==
  /\ wsState = "CONNECTING"
  /\ wsState' = "OPEN"
  /\ ready' = "resolved"
  /\ UNCHANGED <<counter, pending, calls, wire, inbox, handled>>
  /\ UNCHANGED <<httpVars, normVars, fnVars>>

\* The connection is refused: "error" fires before "open", and the
\* once("error") handler rejects waitForReady.
SocketRefused ==
  /\ wsState = "CONNECTING"
  /\ wsState' = "CLOSED"
  /\ ready' = "rejected"
  /\ UNCHANGED <<counter, pending, calls, wire, inbox, handled>>
  /\ UNCHANGED <<httpVars, normVars, fnVars>>

\* A reset that settles what is pending: every waiting call is failed and
\* the map is emptied, as a "close" handler would do.
SocketResetSettles ==
  /\ wsState = "OPEN"
  /\ wsState' = "CLOSED"
  /\ inbox' = {}
  /\ pending' = <<>>
  /\ calls' = [c \in 1..Len(calls) |->
                IF calls[c].state = "suspended"
                  THEN [calls[c] EXCEPT !.state = "failed", !.outcome = "failure"]
                  ELSE calls[c]]
  /\ UNCHANGED <<counter, ready, wire, handled>>
  /\ UNCHANGED <<httpVars, normVars, fnVars>>

\* The open socket is reset. The once("error") handler, still registered,
\* rejects a promise that is already resolved, which changes nothing; no
\* handler looks at this.pending. What was in flight is lost.
SocketReset ==
  /\ wsState = "OPEN"
  /\ wsState' = "CLOSED"
  /\ inbox' = {}
  /\ UNCHANGED <<counter, pending, ready, calls, wire, handled>>
  /\ UNCHANGED <<httpVars, normVars, fnVars>>

\* send(method, params) on an open socket: allocate the id, write the request,
\* register the resolver under the id.
SendOpen ==
  /\ Len(calls) < MaxCalls
  /\ wsState = "OPEN"
  /\ counter' = counter + 1
  /\ wire' = wire \cup {IdOf(counter + 1)}
  /\ pending' = MapSet(pending, IdOf(counter + 1), Len(calls) + 1)
  /\ calls' = Append(calls, [id |-> IdOf(counter + 1), state |-> "suspended",
                             reply |-> NoMsg, outcome |-> "none"])
  /\ UNCHANGED <<wsState, ready, inbox, handled>>
  /\ UNCHANGED <<httpVars, normVars, fnVars>>

\* A send that takes the id back when the write throws: the counter is left
\* where it was, and the next call is given the same id.
SendConnectingReusesId ==
  /\ Len(calls) < MaxCalls
  /\ wsState = "CONNECTING"
  /\ calls' = Append(calls, [id |-> IdOf(counter + 1), state |-> "threw",
                             reply |-> NoMsg, outcome |-> "failure"])
  /\ UNCHANGED <<wsState, counter, pending, ready, wire, inbox, handled>>
  /\ UNCHANGED <<httpVars, normVars, fnVars>>

\* send while the socket is still connecting: ws.send throws after the id was
\* allocated, and the resolver is never registered.
SendConnecting ==
  /\ Len(calls) < MaxCalls
  /\ wsState = "CONNECTING"
  /\ counter' = counter + 1
  /\ calls' = Append(calls, [id |-> IdOf(counter + 1), state |-> "threw",
                             reply |-> NoMsg, outcome |-> "failure"])
  /\ UNCHANGED <<wsState, pending, ready, wire, inbox, handled>>
  /\ UNCHANGED <<httpVars, normVars, fnVars>>

\* send on a closed socket: ws.send is given no callback, so the write is
\* dropped without an exception and the resolver is registered all the same.
SendClosed ==
  /\ Len(calls) < MaxCalls
  /\ wsState = "CLOSED"
  /\ counter' = counter + 1
  /\ pending' = MapSet(pending, IdOf(counter + 1), Len(calls) + 1)
  /\ calls' = Append(calls, [id |-> IdOf(counter + 1), state |-> "suspended",
                             reply |-> NoMsg, outcome |-> "none"])
  /\ UNCHANGED <<wsState, ready, wire, inbox, handled>>
  /\ UNCHANGED <<httpVars, normVars, fnVars>>

\* The server writes a message to the open socket: any envelope, in any order.
ServerSend(m) ==
  /\ wsState = "OPEN"
  /\ m \notin inbox
  /\ Cardinality(inbox) < MaxInflight
  /\ inbox' = inbox \cup {m}
  /\ UNCHANGED <<wsState, counter, pending, ready, calls, wire, handled>>
  /\ UNCHANGED <<httpVars, normVars, fnVars>>

\* What the awaiting route makes of the message its call resolved with:
\* execute/route.ts answers success with the message as the result.
RouteOutcome(m) == "success"

\* A listener that takes a message it cannot match for the reply to the
\* oldest call still pending.
OnMessageOldest(m) ==
  /\ wsState = "OPEN"
  /\ m \in inbox
  /\ inbox' = inbox \ {m}
  /\ LET resolver == IF m.id # NoId /\ MapGet(pending, m.id) # 0
                       THEN MapGet(pending, m.id)
                       ELSE MapGetOldest(pending, m.id) IN
     IF resolver # 0
       THEN /\ calls' = [calls EXCEPT ![resolver] =
                           [@ EXCEPT !.state = "resolved", !.reply = m,
                                     !.outcome = RouteOutcome(m)]]
            /\ pending' = MapDelete(pending, calls[resolver].id)
       ELSE UNCHANGED <<pending, calls>>
  /\ handled' = m
  /\ UNCHANGED <<wsState, counter, ready, wire>>
  /\ UNCHANGED <<httpVars, normVars, fnVars>>

\* The "message" listener.
OnMessage(m) ==
  /\ wsState = "OPEN"
  /\ m \in inbox
  /\ inbox' = inbox \ {m}
  /\ IF m.id = NoId
       THEN UNCHANGED <<pending, calls>>
       ELSE LET resolver == MapGet(pending, m.id) IN
            IF resolver # 0
              THEN /\ calls' = [calls EXCEPT ![resolver] =
                                  [@ EXCEPT !.state = "resolved", !.reply = m,
                                            !.outcome = RouteOutcome(m)]]
                   /\ pending' = MapDelete(pending, m.id)
              ELSE UNCHANGED <<pending, calls>>
  /\ handled' = m
  /\ UNCHANGED <<wsState, counter, ready, wire>>
  /\ UNCHANGED <<httpVars, normVars, fnVars>>


\* ------------------------------------------------- the per-call HTTP routes

\* Event-stream lines in a generated body.
MaxLines == 2

\* The handlers. Each reads the reply to one fetch.
RouteExec1 == "part_001:POST execute"          \* decode(value), lastJSON ?? {}
RouteExec2 == "part_002:POST execute"          \* decode(value, {stream: true})
RouteTools4 == "part_004:POST tools"           \* !finalJSON is an error
RouteTools == "tools/route.ts:POST tools"      \* no status check
RoutePing == "test/route.ts:POST ping"         \* no content-kind branch

Routes == {RouteExec1, RouteExec2, RouteTools4, RouteTools, RoutePing}

\* decoder.decode(value, {stream: true}) or decoder.decode(value).
StreamingDecode(route) == route \in {RouteExec2, RouteTools4}

\* The handler branches on the content-type header before it reads the body.
BranchesOnContentKind(route) == route # RoutePing

\* A handler with the !response.ok check left out.
NeverChecksStatus(route) == FALSE

\* The handler answers `HTTP <status>` when !response.ok.
ChecksStatus(route) == route # RouteTools

\* The handler lists tools (the others return the call's result).
ListsTools(route) == route \in {RouteTools4, RouteTools}

\* Bytes. An ASCII byte is written as its character; "C3" "A9" are the two
\* bytes of U+00E9. A capital letter stands for the bytes of one JSON text:
\*   N  null          O  {}
\*   R  {"jsonrpc":"2.0","id":"exec","result":{"ok":1}}
\*   T  {"jsonrpc":"2.0","id":"tools-list","result":{"tools":[]}}
\*   E  {"jsonrpc":"2.0","id":"exec","error":{"code":-32000}}
\*   F  {"jsonrpc":"2.0","id":"srv-7","result":{"x":1}}
NL == "\n"
DataPrefix == <<"d", "a", "t", "a", ":">>
Digits == {"1", "2"}
TextAtoms == {"N", "O", "R", "T", "E", "F"}
\* Characters: U+00E9 is "e9", U+FFFD (the replacement character) is "fffd".
Whitespace == {" ", NL}

\* The pieces a generated body is made of.
Segments ==
  { DataPrefix \o <<" ", "1", NL>>,                      \* data: 1
    DataPrefix \o <<"R", NL>>,                           \* data:{...result...}
    DataPrefix \o <<"E", NL>>,                           \* data:{...error...}
    DataPrefix \o <<"F", NL>>,                           \* data:{...another id...}
    DataPrefix \o <<"x", NL>>,                           \* data:x (no JSON)
    DataPrefix \o <<"\"", "C3", "A9", "\"", NL>>,        \* data:"é"
    DataPrefix \o <<"2">>,                               \* data:2, no newline
    <<"T">> }                                            \* a bare JSON text

RECURSIVE Concat(_)
Concat(ss) == IF ss = <<>> THEN <<>> ELSE Head(ss) \o Concat(Tail(ss))

Bodies ==
  { Concat(ss) : ss \in UNION { [1..n -> Segments] : n \in 0..MaxLines } }

\* TextDecoder("utf-8").decode over a chunk. pend: the decoder holds a lead
\* byte C3 from the chunk before. Without {stream: true} the decoder is
\* flushed at the end of every chunk, so a held lead byte becomes U+FFFD.
RECURSIVE Utf8Decode(_, _, _)
Utf8Decode(bytes, pend, streaming) ==
  IF bytes = <<>>
    THEN IF pend /\ ~streaming
           THEN [out |-> <<"fffd">>, pend |-> FALSE]
           ELSE [out |-> <<>>, pend |-> pend]
    ELSE LET b == Head(bytes) IN
         IF pend
           THEN IF b = "A9"
                  THEN LET r == Utf8Decode(Tail(bytes), FALSE, streaming)
                       IN [out |-> <<"e9">> \o r.out, pend |-> r.pend]
                  ELSE LET r == Utf8Decode(bytes, FALSE, streaming)
                       IN [out |-> <<"fffd">> \o r.out, pend |-> r.pend]
           ELSE IF b = "C3"
                  THEN Utf8Decode(Tail(bytes), TRUE, streaming)
                  ELSE LET r == Utf8Decode(Tail(bytes), FALSE, streaming)
                       IN [out |-> <<(IF b = "A9" THEN "fffd" ELSE b)>> \o r.out,
                           pend |-> r.pend]

\* String.prototype.startsWith
StartsWith(s, p) == Len(s) >= Len(p) /\ SubSeq(s, 1, Len(p)) = p

\* String.prototype.trim
RECURSIVE TrimLeft(_)
TrimLeft(s) ==
  IF s # <<>> /\ Head(s) \in Whitespace THEN TrimLeft(Tail(s)) ELSE s

RECURSIVE TrimRight(_)
TrimRight(s) ==
  IF s # <<>> /\ s[Len(s)] \in Whitespace
    THEN TrimRight(SubSeq(s, 1, Len(s) - 1)) ELSE s

Trim(s) == TrimRight(TrimLeft(s))

\* JSON values are written as their canonical text.
NullV == <<"N">>
EmptyObject == <<"O">>
EmptyArray == <<"[", "]">>

\* JSON.parse succeeds on the text (surrounding whitespace allowed): a number
\* is a run of digits, a string is quoted and holds no quote, an atom is one
\* whole JSON text.
IsJSON(text) ==
  LET s == Trim(text) IN
  /\ s # <<>>
  /\ \/ \A i \in 1..Len(s) : s[i] \in Digits
     \/ Len(s) = 1 /\ s[1] \in TextAtoms
     \/ /\ Len(s) >= 2
        /\ s[1] = "\"" /\ s[Len(s)] = "\""
        /\ \A i \in 2..(Len(s) - 1) : s[i] \notin {"\"", NL}

\* JSON.parse of a text that parses.
JSONParse(text) == Trim(text)

\* v === null || v === undefined
IsNullish(v) == v = NullV

\* json?.result, for the values of this model (NullV: no such member).
ResultOf(v) ==
  IF v = <<"R">> THEN <<"{", "o", "k", "}">>
  ELSE IF v = <<"F">> THEN <<"{", "x", "}">>
  ELSE IF v = <<"T">> THEN <<"{", "t", "o", "o", "l", "s", "}">>
  ELSE NullV

\* json?.result?.tools ?? json?.result ?? json?.tools ?? []
ToolsOf(v) ==
  IF v = <<"T">> THEN EmptyArray
  ELSE IF ~IsNullish(ResultOf(v)) THEN ResultOf(v)
  ELSE EmptyArray

IsArray(v) == v # <<>> /\ Head(v) = "["

\* The JSON-RPC error envelope {id, error}.
IsErrorEnvelope(v) == v = <<"E">>

\* A loop body that lets a data line that does not parse wipe out what was
\* parsed before it.
RECURSIVE SseLinesForgetting(_, _)
SseLinesForgetting(buf, last) ==
  IF \A i \in 1..Len(buf) : buf[i] # NL
    THEN [buffer |-> buf, last |-> last]
    ELSE LET n == CHOOSE i \in 1..Len(buf) :
                    buf[i] = NL /\ \A j \in 1..(i - 1) : buf[j] # NL
             line == SubSeq(buf, 1, n - 1)
             rest == SubSeq(buf, n + 1, Len(buf))
             raw == SubSeq(line, Len(DataPrefix) + 1, Len(line))
         IN IF StartsWith(line, DataPrefix)
              THEN SseLinesForgetting(rest, IF IsJSON(raw) THEN JSONParse(raw)
                                            ELSE NullV)
              ELSE SseLinesForgetting(rest, last)

\* One pass of the read loop's body over the decoded text of a chunk:
\* buffer += text; lines = buffer.split("\n"); buffer = lines.pop();
\* every other line that starts with "data:" is parsed, and kept if it parses.
RECURSIVE SseLines(_, _)
SseLines(buf, last) ==
  IF \A i \in 1..Len(buf) : buf[i] # NL
    THEN [buffer |-> buf, last |-> last]
    ELSE LET n == CHOOSE i \in 1..Len(buf) :
                    buf[i] = NL /\ \A j \in 1..(i - 1) : buf[j] # NL
             line == SubSeq(buf, 1, n - 1)
             rest == SubSeq(buf, n + 1, Len(buf))
             raw == SubSeq(line, Len(DataPrefix) + 1, Len(line))
         IN IF StartsWith(line, DataPrefix) /\ IsJSON(raw)
              THEN SseLines(rest, JSONParse(raw))
              ELSE SseLines(rest, last)

\* The state of the read loop after reader.read() returned one more chunk.
SseRead(route, st, chunk) ==
  LET d == Utf8Decode(chunk, st.pend, StreamingDecode(route))
      r == SseLines(st.buffer \o d.out, st.last)
  IN [buffer |-> r.buffer, last |-> r.last, pend |-> d.pend]

SseStart == [buffer |-> <<>>, last |-> NullV, pend |-> FALSE]

NoOutcome == [kind |-> "none", status |-> 0, body |-> <<>>]

\* The statements after the body was read: the status check, result.tools or
\* json?.result ?? json, and the answer. (tool_name is not the multi-step
\* tool here.)
Finish(route, status, json) ==
  IF ChecksStatus(route) /\ ~(status \in 200..299)
    THEN [kind |-> "http_error", status |-> status, body |-> json]
  ELSE IF route = RoutePing
    THEN [kind |-> "success", status |-> 0, body |-> json]
  ELSE IF ListsTools(route)
    THEN IF IsArray(ToolsOf(json))
           THEN [kind |-> "success", status |-> 0, body |-> ToolsOf(json)]
           ELSE [kind |-> "invalid_tools", status |-> 0, body |-> json]
  ELSE [kind |-> "success", status |-> 0,
        body |-> IF IsNullish(ResultOf(json)) THEN json ELSE ResultOf(json)]

\* json after the stream ended: lastJSON ?? {}; part_004 answers an error
\* when !finalJSON.
StreamEndOutcome(route, status, last) ==
  IF route = RouteTools4
    THEN IF IsNullish(last)
           THEN [kind |-> "sse_parse_error", status |-> 0, body |-> <<>>]
           ELSE Finish(route, status, last)
    ELSE Finish(route, status, IF IsNullish(last) THEN EmptyObject ELSE last)

Statuses == {200, 502}
ContentKinds == {"sse", "json", "other"}

\* The reply to fetch has arrived: its status, headers and body are fixed.
InitHttp ==
  /\ hRoute \in Routes
  /\ hStatus \in Statuses
  /\ hCtype \in ContentKinds
  /\ hBody \in Bodies
  /\ hPos = 0
  /\ hBuffer = <<>>
  /\ hLast = NullV
  /\ hPend = FALSE
  /\ hPc = IF BranchesOnContentKind(hRoute) /\ hCtype = "sse"
             THEN "reading" ELSE "body"
  /\ hOutcome = NoOutcome

\* reader.read() returns the next k bytes; the loop body runs on them.
ReadChunk(k) ==
  /\ hPc = "reading"
  /\ hPos + k <= Len(hBody)
  /\ LET st == SseRead(hRoute,
                       [buffer |-> hBuffer, last |-> hLast, pend |-> hPend],
                       SubSeq(hBody, hPos + 1, hPos + k))
     IN /\ hBuffer' = st.buffer
        /\ hLast' = st.last
        /\ hPend' = st.pend
  /\ hPos' = hPos + k
  /\ UNCHANGED <<hRoute, hStatus, hCtype, hBody, hPc, hOutcome>>
  /\ UNCHANGED <<wsVars, normVars, fnVars>>

\* reader.read() returns done: the loop ends and the handler runs to its end.
StreamEnd ==
  /\ hPc = "reading"
  /\ hPos = Len(hBody)
  /\ hOutcome' = StreamEndOutcome(hRoute, hStatus, hLast)
  /\ hPc' = "done"
  /\ UNCHANGED <<hRoute, hStatus, hCtype, hBody, hPos, hBuffer, hLast, hPend>>
  /\ UNCHANGED <<wsVars, normVars, fnVars>>

\* json = await response.json().catch(() => null), then the rest.
JsonBody ==
  /\ hPc = "body"
  /\ ~BranchesOnContentKind(hRoute) \/ hCtype = "json"
  /\ LET text == Utf8Decode(hBody, FALSE, FALSE).out
         json == IF IsJSON(text) THEN JSONParse(text) ELSE NullV
     IN hOutcome' = Finish(hRoute, hStatus, json)
  /\ hPc' = "done"
  /\ UNCHANGED <<hRoute, hStatus, hCtype, hBody, hPos, hBuffer, hLast, hPend>>
  /\ UNCHANGED <<wsVars, normVars, fnVars>>

\* Neither text/event-stream nor application/json: "Unknown response format".
UnknownFormat ==
  /\ hPc = "body"
  /\ BranchesOnContentKind(hRoute) /\ hCtype = "other"
  /\ hOutcome' = [kind |-> "unknown_format", status |-> 0, body |-> <<>>]
  /\ hPc' = "done"
  /\ UNCHANGED <<hRoute, hStatus, hCtype, hBody, hPos, hBuffer, hLast, hPend>>
  /\ UNCHANGED <<wsVars, normVars, fnVars>>

IdleHttp ==
  /\ hRoute = RoutePing
  /\ hStatus = 200
  /\ hCtype = "json"
  /\ hBody = <<>>
  /\ hPos = 0
  /\ hBuffer = <<>>
  /\ hLast = NullV
  /\ hPend = FALSE
  /\ hPc = "idle"
  /\ hOutcome = NoOutcome

IdleClient ==
  /\ wsState = "CLOSED"
  /\ counter = 0
  /\ pending = <<>>
  /\ ready = "rejected"
  /\ calls = <<>>
  /\ wire = {}
  /\ inbox = {}
  /\ handled = NoMsg

NextHttp ==
  \/ \E k \in 1..(MaxLines * 10) : ReadChunk(k)
  \/ StreamEnd
  \/ JsonBody
  \/ UnknownFormat



\* ------------------------------------------------ lib/mcp-normalizer.ts

\* Names are sequences of characters.

\* The property names schemas are generated from, in their schema order.
SchemaKeyList ==
  << <<"r", "e", "c", "i", "p", "i", "e", "n", "t", "_", "e", "m", "a", "i", "l">>,
     <<"a", "m", "o", "u", "n", "t">>,
     <<"n", "a", "m", "e", "_", "n", "a", "m", "e">>,
     <<"c", "i", "t", "y">> >>

\* The names arguments are generated from (none is an integer index, which
\* Object.entries would move to the front), each with the value it carries.
RawKeyList ==
  << <<"t", "o">>, <<"e", "m", "a", "i", "l">>, <<"A", "m", "o", "u", "n", "t">>, <<"n", "a", "m", "e">>, <<"n", "a", "_", "m", "e">>, <<"c", "o", "n", "s", "t", "r", "u", "c", "t", "o", "r">>, <<"z", "i", "p">>,
     <<"c", "i", "t", "y">> >>

UpperLetters == <<"A", "B", "C", "D", "E", "F", "G", "H", "I", "J", "K", "L", "M",
                  "N", "O", "P", "Q", "R", "S", "T", "U", "V", "W", "X", "Y", "Z">>
LowerLetters == <<"a", "b", "c", "d", "e", "f", "g", "h", "i", "j", "k", "l", "m",
                  "n", "o", "p", "q", "r", "s", "t", "u", "v", "w", "x", "y", "z">>
DigitChars == {"0", "1", "2", "3", "4", "5", "6", "7", "8", "9"}

UpperSet == {UpperLetters[i] : i \in 1..Len(UpperLetters)}
LowerSet == {LowerLetters[i] : i \in 1..Len(LowerLetters)}

IsUpper(c) == c \in UpperSet
IsLower(c) == c \in LowerSet

\* The small letter of every capital.
LowerOf ==
  [c \in UpperSet |->
     LowerLetters[CHOOSE i \in 1..Len(UpperLetters) : UpperLetters[i] = c]]

\* String.prototype.toLowerCase, one character
LowerChar(c) == IF c \in UpperSet THEN LowerOf[c] ELSE c

ToLowerCase(s) == [i \in 1..Len(s) |-> LowerChar(s[i])]

\* name.toLowerCase().replace(/[^a-z0-9]/g, "")
normalizeFieldName(name) ==
  SelectSeq(ToLowerCase(name), LAMBDA c : IsLower(c) \/ c \in DigitChars)

\* The text with a space before every capital that follows a small letter and
\* with "-" and "_" turned into spaces, lowercased.
RECURSIVE Spaced(_, _)
Spaced(s, i) ==
  IF i > Len(s) THEN <<>>
  ELSE LET c == IF s[i] \in {"-", "_"} THEN " " ELSE s[i]
           gap == i > 1 /\ IsLower(s[i - 1]) /\ IsUpper(s[i])
       IN (IF gap THEN <<" ", LowerChar(c)>> ELSE <<LowerChar(c)>>)
            \o Spaced(s, i + 1)

\* split(/\s+/).filter(Boolean): the words of a spaced text, in order.
RECURSIVE Words(_, _)
Words(s, cur) ==
  IF s = <<>> THEN (IF cur = <<>> THEN <<>> ELSE <<cur>>)
  ELSE IF Head(s) = " "
    THEN (IF cur = <<>> THEN <<>> ELSE <<cur>>) \o Words(Tail(s), <<>>)
    ELSE Words(Tail(s), Append(cur, Head(s)))

tokenize(name) == Words(Spaced(name, 1), <<>>)

SeqToSet(s) == {s[i] : i \in 1..Len(s)}

\* tokenize of the names of the model, computed once.
TokenTable ==
  LET names == SeqToSet(SchemaKeyList) \cup SeqToSet(RawKeyList)
  IN [n \in names \cup {normalizeFieldName(m) : m \in names} |-> tokenize(n)]

\* tokenize(name), read from the table when the table has the name.
TokensOf(name) ==
  IF name \in DOMAIN TokenTable THEN TokenTable[name] ELSE tokenize(name)

\* The score of tokenSimilarity as the fraction num/den (0/1 when a side has
\* no token).
tokenSimilarity(a, b) ==
  LET tokensA == SeqToSet(TokensOf(a))
      tokensB == SeqToSet(TokensOf(b))
      intersection == Cardinality(tokensA \cap tokensB)
  IN IF tokensA = {} \/ tokensB = {}
       THEN [num |-> 0, den |-> 1]
       ELSE [num |-> intersection,
             den |-> Cardinality(tokensA) + Cardinality(tokensB) - intersection]

\* score >= 0.6
AtLeastThreshold(score) == 10 * score.num >= 6 * score.den

\* a > b, for two scores
ScoreGreater(a, b) == a.num * b.den > b.num * a.den

\* String.prototype.includes
Includes(s, sub) ==
  \E i \in 1..(Len(s) - Len(sub) + 1) : SubSeq(s, i, i + Len(sub) - 1) = sub

NoConcept == "undefined"

globalConceptSynonyms(concept) ==
  CASE concept = "recipient_email" ->
    <<<<"t", "o">>,
     <<"e", "m", "a", "i", "l">>,
     <<"r", "e", "c", "i", "p", "i", "e", "n", "t">>,
     <<"r", "e", "c", "i", "p", "i", "e", "n", "t", "_", "e", "m", "a", "i", "l">>,
     <<"m", "a", "i", "l", "_", "t", "o">>,
     <<"s", "e", "n", "d", "_", "t", "o">>>>
    [] concept = "subject" ->
    <<<<"s", "u", "b", "j", "e", "c", "t">>,
     <<"t", "i", "t", "l", "e">>,
     <<"t", "o", "p", "i", "c">>,
     <<"h", "e", "a", "d", "l", "i", "n", "e">>>>
    [] concept = "body" ->
    <<<<"b", "o", "d", "y">>,
     <<"m", "e", "s", "s", "a", "g", "e">>,
     <<"m", "s", "g">>,
     <<"c", "o", "n", "t", "e", "n", "t">>,
     <<"t", "e", "x", "t">>>>
    [] concept = "query" ->
    <<<<"q">>,
     <<"q", "u", "e", "r", "y">>,
     <<"s", "e", "a", "r", "c", "h">>,
     <<"k", "e", "y", "w", "o", "r", "d">>,
     <<"t", "e", "r", "m">>>>
    [] concept = "url" ->
    <<<<"u", "r", "l">>,
     <<"l", "i", "n", "k">>,
     <<"h", "r", "e", "f">>,
     <<"a", "d", "d", "r", "e", "s", "s">>,
     <<"e", "n", "d", "p", "o", "i", "n", "t">>>>
    [] concept = "amount" ->
    <<<<"a", "m", "o", "u", "n", "t">>,
     <<"v", "a", "l", "u", "e">>,
     <<"t", "o", "t", "a", "l">>,
     <<"p", "r", "i", "c", "e">>>>
    [] concept = "date" ->
    <<<<"d", "a", "t", "e">>,
     <<"w", "h", "e", "n">>,
     <<"d", "a", "y">>>>
    [] concept = "phone" ->
    <<<<"p", "h", "o", "n", "e">>,
     <<"p", "h", "o", "n", "e", "_", "n", "u", "m", "b", "e", "r">>,
     <<"m", "o", "b", "i", "l", "e">>,
     <<"c", "e", "l", "l">>>>
    [] OTHER -> <<>>

guessConceptForSchemaKey(schemaKey) ==
  LET key == ToLowerCase(schemaKey) IN
  IF Includes(key, <<"e", "m", "a", "i", "l">>) THEN "recipient_email"
  ELSE IF key = <<"t", "o">> THEN "recipient_email"
  ELSE IF Includes(key, <<"s", "u", "b", "j", "e", "c", "t">>) \/ Includes(key, <<"t", "i", "t", "l", "e">>) THEN "subject"
  ELSE IF Includes(key, <<"b", "o", "d", "y">>) \/ Includes(key, <<"m", "e", "s", "s", "a", "g", "e">>)
          \/ Includes(key, <<"c", "o", "n", "t", "e", "n", "t">>) THEN "body"
  ELSE IF Includes(key, <<"q", "u", "e", "r", "y">>) \/ Includes(key, <<"s", "e", "a", "r", "c", "h">>) THEN "query"
  ELSE IF Includes(key, <<"u", "r", "l">>) \/ Includes(key, <<"l", "i", "n", "k">>) THEN "url"
  ELSE IF Includes(key, <<"a", "m", "o", "u", "n", "t">>) \/ Includes(key, <<"t", "o", "t", "a", "l">>)
          \/ Includes(key, <<"p", "r", "i", "c", "e">>) THEN "amount"
  ELSE IF Includes(key, <<"d", "a", "t", "e">>) \/ Includes(key, <<"d", "a", "y">>) THEN "date"
  ELSE IF Includes(key, <<"p", "h", "o", "n", "e">>) \/ Includes(key, <<"m", "o", "b", "i", "l", "e">>) THEN "phone"
  ELSE NoConcept

\* JavaScript values: the type tag, and the text String(value) gives.
StringV(s) == [t |-> "string", v |-> s]
NumberV(s) == [t |-> "number", v |-> s]
BooleanV(s) == [t |-> "boolean", v |-> s]
JsNull == [t |-> "null", v |-> "null"]

\* More JavaScript values: undefined, and objects and arrays that hold
\* their entries (an object: [key, value] in insertion order).
Undefined == [t |-> "undefined", v |-> "undefined"]
ObjectV(entries) == [t |-> "object", entries |-> entries]
ArrayV(items) == [t |-> "array", items |-> items]

\* String(value): an object gives "[object Object]", an array its items
\* joined by commas (arrays of this model hold at most one item).
String(value) ==
  CASE value.t = "object" -> "[object Object]"
    [] value.t = "array" ->
         IF value.items = <<>> THEN "" ELSE value.items[1].v
    [] OTHER -> value.v

\* JSON.parse of the strings of this model that are JSON texts:
\* [text, value]. On every other string JSON.parse throws.
JsonTexts ==
  {[text |-> "{\"a\":1}",
    value |-> ObjectV(<<[key |-> "a", value |-> NumberV("1")]>>)],
   [text |-> "[7]", value |-> ArrayV(<<NumberV("7")>>)],
   [text |-> "null", value |-> JsNull],
   [text |-> "42", value |-> NumberV("42")],
   [text |-> "7", value |-> NumberV("7")],
   [text |-> "true", value |-> BooleanV("true")]}

ParsesAsJson(text) == \E e \in JsonTexts : e.text = text

ParsedJson(text) == (CHOOSE e \in JsonTexts : e.text = text).value

\* typeof value === "object"
TypeofObject(value) == value.t \in {"object", "array", "null"}

\* The strings of this model that Number() reads as a number (the others
\* give NaN).
NumericStrings == {"42", "7"}

\* The strings Number() reads as 0: empty, or white space only.
BlankStrings == {"", " "}

NaN == NumberV("NaN")

\* Number(value)
Number(value) ==
  CASE value.t = "number" -> value
    [] value.t = "string" ->
         IF value.v \in NumericStrings THEN NumberV(value.v)
         ELSE IF value.v \in BlankStrings THEN NumberV("0")
         ELSE NaN
    [] value.t = "boolean" -> NumberV(IF value.v = "true" THEN "1" ELSE "0")
    [] value.t = "null" -> NumberV("0")
    [] value.t = "array" ->
         IF String(value) \in NumericStrings THEN NumberV(String(value))
         ELSE IF String(value) \in BlankStrings THEN NumberV("0")
         ELSE NaN
    [] OTHER -> NaN

NoType == "undefined"

\* coerceValue(value, schema), for the declared types of this model; schema
\* is the type of the property schema (NoType: no type is declared).
coerceValue(value, type) ==
  IF value = JsNull \/ type = NoType THEN value
  ELSE CASE type = "string" -> StringV(String(value))
         [] type \in {"number", "integer"} ->
              IF value.t = "number" THEN value
              ELSE LET n == Number(value)
                   IN IF n = NaN THEN value ELSE n
         [] type = "boolean" ->
              IF value.t = "boolean" THEN value
              ELSE IF value.t = "string" /\ value.v \in {"true", "yes", "1"}
                THEN BooleanV("true")
              ELSE IF value.t = "string" /\ value.v \in {"false", "no", "0"}
                THEN BooleanV("false")
              ELSE value
         [] type = "object" ->
              IF TypeofObject(value) /\ value.t # "array" THEN value
              ELSE IF value.t = "string" /\ ParsesAsJson(value.v)
                      /\ TypeofObject(ParsedJson(value.v))
                      /\ ParsedJson(value.v).t # "array"
                THEN ParsedJson(value.v)
              ELSE value
         [] OTHER -> value

\* Objects keep their own properties in insertion order: a sequence of
\* [key, value].
OwnKeys(obj) == {obj[i].key : i \in 1..Len(obj)}

\* The members every object literal inherits from Object.prototype (those
\* among the names of this model).
ObjectPrototypeKeys == {<<"c", "o", "n", "s", "t", "r", "u", "c", "t", "o", "r">>}

\* key in obj
HasOwnOnly(key, obj) == key \in OwnKeys(obj)

In(key, obj) == key \in OwnKeys(obj) \/ key \in ObjectPrototypeKeys

\* obj[key] = value
ObjSet(obj, key, value) ==
  IF key \in OwnKeys(obj)
    THEN [i \in 1..Len(obj) |->
            IF obj[i].key = key THEN [key |-> key, value |-> value] ELSE obj[i]]
    ELSE Append(obj, [key |-> key, value |-> value])

\* obj[key], of an own property
ObjGet(obj, key) ==
  obj[CHOOSE i \in 1..Len(obj) : obj[i].key = key].value

\* rawNormalizedMap: a Map keeps the place of the first set of a key and the
\* value of the last. Entries are [norm, key, value].
RECURSIVE BuildNormalizedMap(_, _)
BuildNormalizedMap(rawEntries, map) ==
  IF rawEntries = <<>> THEN map
  ELSE LET e == Head(rawEntries)
           n == normalizeFieldName(e.key)
           entry == [norm |-> n, key |-> e.key, value |-> e.value]
       IN BuildNormalizedMap(Tail(rawEntries),
            IF \E i \in 1..Len(map) : map[i].norm = n
              THEN [i \in 1..Len(map) |-> IF map[i].norm = n THEN entry ELSE map[i]]
              ELSE Append(map, entry))

NormMapHas(map, n) == \E i \in 1..Len(map) : map[i].norm = n
NormMapGet(map, n) == map[CHOOSE i \in 1..Len(map) : map[i].norm = n]

NoKey == <<"undefined">>
NoScore == [num |-> 0, den |-> 1]

\* A log entry that also records how many invocations came before it.
LogEntryCounted(target, from, reason, score) ==
  [targetKey |-> target, fromKey |-> from, reason |-> reason,
   score |-> <<score, Len(fOuts)>>]

LogEntry(target, from, reason, score) ==
  [targetKey |-> target, fromKey |-> from, reason |-> reason, score |-> score]

\* 1) the direct match of a schema key: the map entry, or none
NoEntry == [norm |-> <<>>, key |-> NoKey, value |-> JsNull]

DirectMatch(map, schemaKey) ==
  IF NormMapHas(map, normalizeFieldName(schemaKey))
    THEN NormMapGet(map, normalizeFieldName(schemaKey))
    ELSE NoEntry

\* A scan in the order of the raw arguments: the first entry of the map that
\* some candidate names.
FirstRawEntry(map, candidates) ==
  LET norms == {normalizeFieldName(candidates[i]) : i \in 1..Len(candidates)}
      hits == {i \in 1..Len(map) : map[i].norm \in norms}
  IN IF hits = {} THEN NoEntry
     ELSE map[CHOOSE i \in hits : \A j \in hits : i <= j]

\* 2) the first candidate of the concept's list that the map holds
RECURSIVE FirstCandidate(_, _)
FirstCandidate(map, candidates) ==
  IF candidates = <<>> THEN NoEntry
  ELSE IF NormMapHas(map, normalizeFieldName(Head(candidates)))
    THEN NormMapGet(map, normalizeFieldName(Head(candidates)))
    ELSE FirstCandidate(map, Tail(candidates))

SynonymMatch(map, schemaKey) ==
  LET concept == guessConceptForSchemaKey(schemaKey) IN
  IF concept # NoConcept /\ globalConceptSynonyms(concept) # <<>>
    THEN FirstCandidate(map, globalConceptSynonyms(concept))
    ELSE NoEntry

\* 3) the loop over rawNormalizedMap.entries(): best is [found, score, key,
\* value], key being the normalized key of the map entry.
NoBest == [found |-> FALSE, score |-> NoScore, key |-> <<>>, value |-> JsNull]

RECURSIVE FuzzyBest(_, _, _, _)
FuzzyBest(map, i, schemaKey, best) ==
  IF i > Len(map) THEN best
  ELSE LET score == tokenSimilarity(schemaKey, map[i].norm)
       IN FuzzyBest(map, i + 1, schemaKey,
            IF AtLeastThreshold(score)
               /\ (~best.found \/ ScoreGreater(score, best.score))
              THEN [found |-> TRUE, score |-> score, key |-> map[i].norm,
                    value |-> map[i].value]
              ELSE best)

\* rawEntries.find(([k]) => normalizeFieldName(k) === best.key)?.[0] ?? best.key
OriginalKey(rawEntries, bestKey) ==
  IF \E i \in 1..Len(rawEntries) : normalizeFieldName(rawEntries[i].key) = bestKey
    THEN rawEntries[CHOOSE i \in 1..Len(rawEntries) :
           /\ normalizeFieldName(rawEntries[i].key) = bestKey
           /\ \A j \in 1..(i - 1) :
                normalizeFieldName(rawEntries[j].key) # bestKey].key
    ELSE bestKey

\* 4) no match: a required key is set to null, an optional one is left out.
NoMatch(acc, schemaKey, required) ==
  IF schemaKey \in required
    THEN [normalized |-> ObjSet(acc.normalized, schemaKey, JsNull),
          logs |-> Append(acc.logs,
                     LogEntry(schemaKey, NoKey, "Required field missing; set to null", NoScore))]
    ELSE [normalized |-> acc.normalized,
          logs |-> Append(acc.logs,
                     LogEntry(schemaKey, NoKey, "No matching argument found; left undefined", NoScore))]

\* The body of the loop over Object.entries(properties), for one property.
MatchProperty(acc, prop, required, rawEntries, map) ==
  LET direct == DirectMatch(map, prop.key)
      synonym == SynonymMatch(map, prop.key)
      best == FuzzyBest(map, 1, prop.key, NoBest)
  IN IF direct # NoEntry
       THEN [normalized |-> ObjSet(acc.normalized, prop.key,
                                   coerceValue(direct.value, prop.type)),
             logs |-> Append(acc.logs,
                        LogEntry(prop.key, direct.key, "Direct key match (normalized)", NoScore))]
     ELSE IF synonym # NoEntry
       THEN [normalized |-> ObjSet(acc.normalized, prop.key,
                                   coerceValue(synonym.value, prop.type)),
             logs |-> Append(acc.logs,
                        LogEntry(prop.key, synonym.key, "Concept-based synonym match", NoScore))]
     ELSE IF best.found
       THEN [normalized |-> ObjSet(acc.normalized, prop.key,
                                   coerceValue(best.value, prop.type)),
             logs |-> Append(acc.logs,
                        LogEntry(prop.key, OriginalKey(rawEntries, best.key),
                                 "Fuzzy token similarity match", best.score))]
     ELSE NoMatch(acc, prop.key, required)

RECURSIVE MatchProperties(_, _, _, _, _)
MatchProperties(acc, props, required, rawEntries, map) ==
  IF props = <<>> THEN acc
  ELSE MatchProperties(MatchProperty(acc, Head(props), required, rawEntries, map),
                       Tail(props), required, rawEntries, map)

\* 5) the loop that keeps the raw arguments left over
RECURSIVE KeepExtras(_, _)
KeepExtras(acc, rawEntries) ==
  IF rawEntries = <<>> THEN acc
  ELSE LET e == Head(rawEntries) IN
       KeepExtras(
         IF ~In(e.key, acc.normalized)
           THEN [normalized |-> ObjSet(acc.normalized, e.key, e.value),
                 logs |-> Append(acc.logs,
                            LogEntry(e.key, e.key, "Extra argument preserved (not in schema)", NoScore))]
           ELSE acc,
         Tail(rawEntries))

Star == <<"*">>
NoSchema == [present |-> FALSE, properties |-> <<>>, required |-> {}]
NoArgs == <<[key |-> NoKey, value |-> JsNull]>>

\* normalizeMCPArguments(tool, rawArgs): schema is tool.inputSchema ||
\* tool.input_schema (NoSchema: neither holds properties), rawArgs the entries
\* of the arguments object (NoArgs: no object was passed).
normalizeMCPArguments(schema, rawArgs) ==
  IF rawArgs = NoArgs
    THEN [normalized |-> <<>>,
          logs |-> <<LogEntry(Star, NoKey, "No arguments provided", NoScore)>>]
  ELSE IF ~schema.present
    THEN [normalized |-> rawArgs,
          logs |-> <<LogEntry(Star, NoKey, "No schema; passthrough", NoScore)>>]
  ELSE KeepExtras(
         MatchProperties([normalized |-> <<>>, logs |-> <<>>],
                         schema.properties, schema.required, rawArgs,
                         BuildNormalizedMap(rawArgs, <<>>)),
         rawArgs)

\* ------------------------------------ the execute handlers, up to the fetch

\* Properties of a generated schema, and entries of generated arguments.
MaxProps == 2
MaxRaw == 2

TypeChoices(key) ==
  IF key = <<"a", "m", "o", "u", "n", "t">> THEN {"number", NoType} ELSE {NoType}

RawValueOf(key) ==
  CASE key = <<"t", "o">> -> StringV("a@b.com")
    [] key = <<"e", "m", "a", "i", "l">> -> StringV("c@d.org")
    [] key = <<"A", "m", "o", "u", "n", "t">> -> StringV("42")
    [] key = <<"n", "a", "m", "e">> -> StringV("Ann")
    [] key = <<"n", "a", "_", "m", "e">> -> StringV("Bob")
    [] key = <<"c", "o", "n", "s", "t", "r", "u", "c", "t", "o", "r">> -> StringV("x")
    [] key = <<"z", "i", "p">> -> NumberV("7")
    [] OTHER -> JsNull

RECURSIVE Ascending(_)
Ascending(I) ==
  IF I = {} THEN <<>>
  ELSE LET m == CHOOSE x \in I : \A y \in I : x <= y
       IN <<m>> \o Ascending(I \ {m})

PropertyLists ==
  UNION { LET idx == Ascending(I) IN
          { [i \in 1..Len(idx) |-> [key |-> SchemaKeyList[idx[i]], type |-> ty[i]]] :
              ty \in { f \in [1..Len(idx) -> {"number", NoType}] :
                         \A i \in 1..Len(idx) :
                           f[i] \in TypeChoices(SchemaKeyList[idx[i]]) } } :
          I \in { J \in SUBSET (1..Len(SchemaKeyList)) : Cardinality(J) <= MaxProps } }

Schemas ==
  {NoSchema} \cup
  UNION { { [present |-> TRUE, properties |-> props, required |-> req] :
              req \in SUBSET {props[i].key : i \in 1..Len(props)} } :
          props \in PropertyLists }

RawArguments ==
  UNION { { [i \in 1..n |-> [key |-> RawKeyList[f[i]],
                              value |-> RawValueOf(RawKeyList[f[i]])]] :
              f \in { g \in [1..n -> 1..Len(RawKeyList)] :
                        \A i, j \in 1..n : i # j => g[i] # g[j] } } :
          n \in 0..MaxRaw }

VariantChecked == "part_003:POST execute"      \* filters normalized[field] == null
VariantUnchecked == "part_001:POST execute"    \* no check of required fields
VariantObjectArg == "part_002:POST execute"    \* normalizeMCPArguments({...})

Variants == {VariantChecked, VariantUnchecked, VariantObjectArg}

NoResult == [normalized |-> <<>>, logs |-> <<>>]
NoAnswer == [kind |-> "none", normalized |-> <<>>, logs |-> <<>>]

\* The handler has loaded the connection and the tool record.
InitNorm ==
  /\ nVariant \in Variants
  /\ nSchema \in Schemas
  /\ nRaw \in RawArguments
  /\ nResult = NoResult
  /\ nSent = FALSE
  /\ nOutcome = NoAnswer
  /\ nPc = "start"

IdleNorm ==
  /\ nVariant = VariantChecked
  /\ nSchema = NoSchema
  /\ nRaw = <<>>
  /\ nResult = NoResult
  /\ nSent = FALSE
  /\ nOutcome = NoAnswer
  /\ nPc = "idle"

\* No function is called.
IdleFn ==
  /\ fOp = "idle"
  /\ fArg = <<>>
  /\ fOuts = <<>>

\* normalized[field] == null
IsNullish2(obj, field) ==
  ~HasOwnOnly(field, obj) \/ ObjGet(obj, field) = JsNull

\* requiredFields.filter(field => normalized[field] == null)
MissingRequired(schema, normalized) ==
  {f \in schema.required : IsNullish2(normalized, f)}

\* part_003: normalize, answer 400 with normalized and logs when a required
\* field is null, call fetch otherwise.
PostChecked ==
  /\ nPc = "start"
  /\ nVariant = VariantChecked
  /\ LET norm == normalizeMCPArguments(nSchema, nRaw) IN
     /\ nResult' = norm
     /\ IF MissingRequired(nSchema, norm.normalized) # {}
          THEN /\ nOutcome' = [kind |-> "missing_required",
                               normalized |-> norm.normalized, logs |-> norm.logs]
               /\ nSent' = FALSE
               /\ nPc' = "done"
          ELSE /\ nOutcome' = nOutcome
               /\ nSent' = TRUE
               /\ nPc' = "fetching"
  /\ UNCHANGED <<nVariant, nSchema, nRaw>>
  /\ UNCHANGED <<wsVars, httpVars, fnVars>>

\* part_001: normalize, then call fetch.
PostUnchecked ==
  /\ nPc = "start"
  /\ nVariant = VariantUnchecked
  /\ nResult' = normalizeMCPArguments(nSchema, nRaw)
  /\ nSent' = TRUE
  /\ nPc' = "fetching"
  /\ UNCHANGED <<nVariant, nSchema, nRaw, nOutcome>>
  /\ UNCHANGED <<wsVars, httpVars, fnVars>>

\* part_002: the tool name, the arguments and the schema are passed as one
\* object in the place of the tool, so the normalizer sees no arguments and
\* no inputSchema; its result has no missingRequired, and fetch is called.
PostObjectArg ==
  /\ nPc = "start"
  /\ nVariant = VariantObjectArg
  /\ nResult' = normalizeMCPArguments(NoSchema, NoArgs)
  /\ nSent' = TRUE
  /\ nPc' = "fetching"
  /\ UNCHANGED <<nVariant, nSchema, nRaw, nOutcome>>
  /\ UNCHANGED <<wsVars, httpVars, fnVars>>

NextNorm ==
  \/ PostChecked
  \/ PostUnchecked
  \/ PostObjectArg

\* --------------------------------------------- unwrapping of the result
\* value?.key
Member(value, key) ==
  IF value.t = "object" /\ key \in OwnKeys(value.entries)
    THEN ObjGet(value.entries, key)
    ELSE Undefined

\* The left side of ?? is given up: null or undefined.
NullishV(value) == value.t \in {"null", "undefined"}

\* The values an && or an if takes as true.
Truthy(value) ==
  /\ ~NullishV(value)
  /\ value \notin {StringV(""), NumberV("0"), NaN, BooleanV("false")}

\* What JSON.stringify writes of an object: the members that are not
\* undefined.
Serialized(value) ==
  IF value.t = "object"
    THEN ObjectV(SelectSeq(value.entries, LAMBDA e : e.value # Undefined))
    ELSE value

MultiStepTool == "RUBE_MULTI_EXECUTE_TOOL"

\* json?.result ?? json
StartingPayload(json) ==
  IF NullishV(Member(json, "result")) THEN json ELSE Member(json, "result")

\* resultPayload?.data?.data
NestedData(payload) == Member(Member(payload, "data"), "data")

isRubeMulti(toolName, payload) ==
  toolName = MultiStepTool /\ Truthy(Member(NestedData(payload), "results"))

\* The four handlers that unwrap, by the members they copy.
UnwrapWithSession == "part_001:170"     \* results, session, time_info, memory
UnwrapNoSession == "part_002:197"       \* results, memory, time_info
UnwrapNoSessionOld == "part_001:459"    \* results, time_info, memory
UnwrapDefaults == "part_003:214"        \* results, memory ?? {}, time_info ?? {}
UnwrapSites ==
  {UnwrapWithSession, UnwrapNoSession, UnwrapNoSessionOld, UnwrapDefaults}

\* value ?? {}
OrEmpty(value) == IF NullishV(value) THEN ObjectV(<<>>) ELSE value

\* The object literal the handler builds from data.data.
Flattened(site, dd) ==
  CASE site = UnwrapWithSession ->
         ObjectV(<<[key |-> "results", value |-> Member(dd, "results")],
                   [key |-> "session", value |-> Member(dd, "session")],
                   [key |-> "time_info", value |-> Member(dd, "time_info")],
                   [key |-> "memory", value |-> Member(dd, "memory")]>>)
    [] site = UnwrapNoSession ->
         ObjectV(<<[key |-> "results", value |-> Member(dd, "results")],
                   [key |-> "memory", value |-> Member(dd, "memory")],
                   [key |-> "time_info", value |-> Member(dd, "time_info")]>>)
    [] site = UnwrapNoSessionOld ->
         ObjectV(<<[key |-> "results", value |-> Member(dd, "results")],
                   [key |-> "time_info", value |-> Member(dd, "time_info")],
                   [key |-> "memory", value |-> Member(dd, "memory")]>>)
    [] site = UnwrapDefaults ->
         ObjectV(<<[key |-> "results", value |-> Member(dd, "results")],
                   [key |-> "memory", value |-> OrEmpty(Member(dd, "memory"))],
                   [key |-> "time_info",
                    value |-> OrEmpty(Member(dd, "time_info"))]>>)

\* The result the handler puts in its answer, for the parsed reply json.
unwrap(site, toolName, json) ==
  LET resultPayload == StartingPayload(json)
  IN IF isRubeMulti(toolName, resultPayload)
       THEN Flattened(site, NestedData(resultPayload))
       ELSE resultPayload

\* ------------------------------------------------------- normalizeSchema
\* The two texts of normalizeSchema: the one that passes every other shape
\* through (tools/route.ts:13, and part_004:196 with the same outcomes), and
\* the later one (tools/route.ts:258).
DraftPassthrough == "tools/route.ts:13"
DraftRobust == "tools/route.ts:258"
Drafts == {DraftPassthrough, DraftRobust}

\* { type: "object", properties: {} }
EmptySchema ==
  ObjectV(<<[key |-> "type", value |-> StringV("object")],
            [key |-> "properties", value |-> ObjectV(<<>>)]>>)

\* value || fallback
OrElse(value, fallback) == IF Truthy(value) THEN value ELSE fallback

\* The loop over the fields of an array-based schema, then the object it
\* returns: required is written only when a field was flagged.
RECURSIVE BuildSchema(_, _, _)
BuildSchema(fields, properties, required) ==
  IF fields = <<>>
    THEN ObjectV(<<[key |-> "type", value |-> StringV("object")],
                   [key |-> "properties", value |-> ObjectV(properties)]>>
                 \o (IF Len(required) > 0
                       THEN <<[key |-> "required", value |-> ArrayV(required)]>>
                       ELSE <<>>))
    ELSE LET field == Head(fields)
             name == Member(field, "name")
         IN IF ~Truthy(name)
              THEN BuildSchema(Tail(fields), properties, required)
              ELSE BuildSchema(
                     Tail(fields),
                     ObjSet(properties, name.v,
                            ObjectV(<<[key |-> "type",
                                       value |-> OrElse(Member(field, "type"),
                                                        StringV("string"))],
                                      [key |-> "description",
                                       value |-> OrElse(Member(field, "description"),
                                                        StringV(""))]>>)),
                     IF Truthy(Member(field, "required"))
                       THEN Append(required, name)
                       ELSE required)

normalizeSchema(draft, input) ==
  IF ~Truthy(input)
    THEN IF draft = DraftPassthrough THEN ObjectV(<<>>) ELSE EmptySchema
  ELSE IF Member(input, "type") = StringV("object")
          /\ Truthy(Member(input, "properties"))
    THEN input
  ELSE IF input.t = "array"
    THEN BuildSchema(input.items, <<>>, <<>>)
  ELSE IF draft = DraftPassthrough
    THEN input
  ELSE IF input.t = "object" /\ Len(input.entries) > 0
    THEN input
  ELSE EmptySchema

\* ------------------------------------------------ the listing of tools
\* The three texts that turn an entry of the server's tool list into a
\* stored row.
ListStoredKeyOld == "tools/route.ts:201"   \* normalizeSchema(tool.parameters_schema)
ListStoredKey == "tools/route.ts:427"      \* the same, later normalizeSchema
ListDeclaredKeys == "part_004:399"         \* inputSchema ?? input_schema ?? ...
ListSites == {ListStoredKeyOld, ListStoredKey, ListDeclaredKeys}

\* normalizeSchema as the text of the site has it.
DraftOf(site) == IF site = ListStoredKey THEN DraftRobust ELSE DraftPassthrough

\* a ?? b ?? ... ?? {}, over the members of the tool named in keys
RECURSIVE Coalesce(_, _)
Coalesce(tool, keys) ==
  IF keys = <<>> THEN ObjectV(<<>>)
  ELSE IF ~NullishV(Member(tool, Head(keys))) THEN Member(tool, Head(keys))
  ELSE Coalesce(tool, Tail(keys))

\* parameters_schema of the row written for the tool.
StoredSchema(site, tool) ==
  IF site = ListDeclaredKeys
    THEN normalizeSchema(DraftOf(site),
                         Coalesce(tool, <<"inputSchema", "input_schema",
                                          "schema", "parameters">>))
    ELSE normalizeSchema(DraftOf(site), Member(tool, "parameters_schema"))

\* ------------------------------------------- the pure functions, called
\* Invocations of one function on one input.
MaxInvocations == 2

\* Values a caller can send for one argument.
CoerceValues ==
  {StringV("42"), StringV("7"), StringV("abc"), StringV(""), StringV(" "),
   StringV("true"), StringV("no"), NumberV("42"), BooleanV("true"),
   BooleanV("false"), JsNull,
   StringV("{\"a\":1}"), StringV("[7]"), StringV("null"),
   ObjectV(<<[key |-> "b", value |-> NumberV("2")]>>), ArrayV(<<NumberV("7")>>),
   ArrayV(<<>>)}

\* Declared types: the four scalar ones, object, one the switch does not
\* know, none.
CoerceTypes ==
  {"string", "number", "integer", "boolean", "object", "date", NoType}

CoerceCalls ==
  {[op |-> "coerceValue", arg |-> [value |-> v, type |-> ty]] :
     v \in CoerceValues, ty \in CoerceTypes}

\* A tool with its schema, and the arguments of one call (or none).
NormalizeCalls ==
  {[op |-> "normalizeMCPArguments", arg |-> [schema |-> s, rawArgs |-> r]] :
     s \in Schemas, r \in RawArguments \cup {NoArgs}}

\* A tool whose one property is user_name, called with arguments whose
\* names are made of several words.
UserNameSchema ==
  [present |-> TRUE,
   properties |-> <<[key |-> <<"u", "s", "e", "r", "_", "n", "a", "m", "e">>,
                     type |-> NoType]>>,
   required |-> {}]

WordyEntries ==
  <<[key |-> <<"n", "a", "m", "e", "_", "u", "s", "e", "r">>,
     value |-> StringV("u1")],
    [key |-> <<"n", "a", "m", "e", "_", "u", "s", "e", "r", "_", "i", "d">>,
     value |-> StringV("u2")],
    [key |-> <<"u", "s", "e", "r", "N", "a", "m", "e">>, value |-> StringV("u3")],
    [key |-> <<"u", "s", "e", "r">>, value |-> StringV("u4")]>>

WordyArguments ==
  UNION { { [i \in 1..n |-> WordyEntries[f[i]]] :
              f \in { g \in [1..n -> 1..Len(WordyEntries)] :
                        \A i, j \in 1..n : i # j => g[i] # g[j] } } :
          n \in 1..MaxRaw }

WordyCalls ==
  {[op |-> "normalizeMCPArguments",
    arg |-> [schema |-> UserNameSchema, rawArgs |-> r]] : r \in WordyArguments}

\* The members data.data can hold: each one present or not.
OptionalEntry(key, values) ==
  {<<>>} \cup {<<[key |-> key, value |-> v]>> : v \in values}

NestedObjects ==
  {ObjectV(r \o s \o m \o ti) :
     r \in OptionalEntry("results",
                         {ArrayV(<<NumberV("1"), NumberV("2")>>), ArrayV(<<>>),
                          JsNull}),
     s \in OptionalEntry("session",
                         {ObjectV(<<[key |-> "id", value |-> StringV("s1")]>>)}),
     m \in OptionalEntry("memory",
                         {ObjectV(<<[key |-> "a", value |-> NumberV("1")]>>)}),
     ti \in OptionalEntry("time_info",
                          {ObjectV(<<[key |-> "t", value |-> NumberV("5")]>>)})}

\* Payloads: the nested envelope, and three that hold no data.data.
Payloads ==
  {ObjectV(<<[key |-> "data",
              value |-> ObjectV(<<[key |-> "data", value |-> dd]>>)]>>) :
     dd \in NestedObjects}
  \cup {ObjectV(<<[key |-> "ok", value |-> BooleanV("true")]>>),
        ObjectV(<<[key |-> "data", value |-> StringV("x")]>>),
        StringV("done")}

Envelope(payload) ==
  ObjectV(<<[key |-> "jsonrpc", value |-> StringV("2.0")],
            [key |-> "id", value |-> NumberV("1")],
            [key |-> "result", value |-> payload]>>)

\* Parsed replies: a JSON-RPC envelope around a payload or around null, or
\* the payload with no envelope.
RawResults ==
  {Envelope(p) : p \in Payloads \cup {JsNull}} \cup Payloads

UnwrapCalls ==
  {[op |-> "unwrap", arg |-> [site |-> site, toolName |-> tn, rawResult |-> j]] :
     site \in UnwrapSites, tn \in {MultiStepTool, "GMAIL_SEND_EMAIL"},
     j \in RawResults}

\* Fields of one array-based schema.
MaxFields == 2

\* Field descriptors a server can list, one of them without a name, and
\* null.
FieldDescriptors ==
  {ObjectV(<<[key |-> "name", value |-> StringV("a")]>>),
   ObjectV(<<[key |-> "name", value |-> StringV("a")],
             [key |-> "type", value |-> StringV("number")],
             [key |-> "required", value |-> BooleanV("true")]>>),
   ObjectV(<<[key |-> "name", value |-> StringV("b")],
             [key |-> "description", value |-> StringV("the b")],
             [key |-> "required", value |-> BooleanV("true")]>>),
   ObjectV(<<[key |-> "type", value |-> StringV("string")]>>),
   JsNull}

ArraySchemas ==
  {ArrayV(fs) : fs \in UNION {[1..n -> FieldDescriptors] : n \in 0..MaxFields}}

\* properties: {} or { a: { type: "string" } }
PropertyObjects ==
  {ObjectV(<<>>),
   ObjectV(<<[key |-> "a",
              value |-> ObjectV(<<[key |-> "type",
                                   value |-> StringV("string")]>>)]>>)}

\* Schemas that are JSON schemas of an object already: with or without
\* required, which names a property or does not.
ObjectSchemas ==
  {ObjectV(<<[key |-> "type", value |-> StringV("object")],
             [key |-> "properties", value |-> props]>> \o req) :
     props \in PropertyObjects,
     req \in OptionalEntry("required",
                           {ArrayV(<<StringV("a")>>), ArrayV(<<StringV("b")>>)})}

\* Objects of another shape.
OtherObjects ==
  {ObjectV(<<>>),
   ObjectV(<<[key |-> "foo", value |-> NumberV("1")]>>),
   ObjectV(<<[key |-> "type", value |-> StringV("object")]>>),
   ObjectV(<<[key |-> "type", value |-> StringV("string")]>>),
   ObjectV(<<[key |-> "properties", value |-> ObjectV(<<>>)]>>)}

\* What a server or a stored row can hold in the place of a schema.
SchemaInputs ==
  {Undefined, JsNull, StringV(""), StringV("abc"), NumberV("0"), NumberV("5"),
   BooleanV("true")}
  \cup ArraySchemas \cup ObjectSchemas \cup OtherObjects

SchemaCalls ==
  {[op |-> "normalizeSchema", arg |-> [draft |-> d, input |-> i]] :
     d \in Drafts, i \in SchemaInputs}

\* Schemas a tool declares: none, an empty or a filled object schema, a list
\* of fields.
DeclaredSchemas ==
  {ObjectV(<<[key |-> "type", value |-> StringV("object")],
             [key |-> "properties", value |-> props]>>) : props \in PropertyObjects}
  \cup {ArrayV(<<f>>) : f \in FieldDescriptors}

\* Entries of result.tools: a name, and the schema under one of the keys a
\* server or an earlier listing uses (or under none).
ToolEntries ==
  {ObjectV(<<[key |-> "name", value |-> StringV("send_mail")]>>)}
  \cup {ObjectV(<<[key |-> "name", value |-> StringV("send_mail")],
                  [key |-> k, value |-> sch]>>) :
          k \in {"inputSchema", "input_schema", "parameters_schema"},
          sch \in DeclaredSchemas}

ListCalls ==
  {[op |-> "listTools", arg |-> [site |-> site, tool |-> tool]] :
     site \in ListSites, tool \in ToolEntries}

FnCalls ==
  CoerceCalls \cup NormalizeCalls \cup WordyCalls \cup UnwrapCalls
  \cup SchemaCalls \cup ListCalls

InitFn ==
  /\ \E c \in FnCalls : fOp = c.op /\ fArg = c.arg
  /\ fOuts = <<>>

\* coerceValue(value, schema) is called.
CallCoerceValue ==
  /\ fOp = "coerceValue"
  /\ Len(fOuts) < MaxInvocations
  /\ fOuts' = Append(fOuts, coerceValue(fArg.value, fArg.type))
  /\ UNCHANGED <<fOp, fArg>>
  /\ UNCHANGED <<wsVars, httpVars, normVars>>

\* normalizeMCPArguments(tool, rawArgs) is called.
CallNormalize ==
  /\ fOp = "normalizeMCPArguments"
  /\ Len(fOuts) < MaxInvocations
  /\ fOuts' = Append(fOuts, normalizeMCPArguments(fArg.schema, fArg.rawArgs))
  /\ UNCHANGED <<fOp, fArg>>
  /\ UNCHANGED <<wsVars, httpVars, normVars>>

\* The handler unwraps the reply and writes the result in its answer.
CallUnwrap ==
  /\ fOp = "unwrap"
  /\ Len(fOuts) < MaxInvocations
  /\ fOuts' = Append(fOuts,
                     Serialized(unwrap(fArg.site, fArg.toolName, fArg.rawResult)))
  /\ UNCHANGED <<fOp, fArg>>
  /\ UNCHANGED <<wsVars, httpVars, normVars>>

\* normalizeSchema(input) is called.
CallNormalizeSchema ==
  /\ fOp = "normalizeSchema"
  /\ Len(fOuts) < MaxInvocations
  /\ fOuts' = Append(fOuts, normalizeSchema(fArg.draft, fArg.input))
  /\ UNCHANGED <<fOp, fArg>>
  /\ UNCHANGED <<wsVars, httpVars, normVars>>

\* The handler builds the row of one tool of the list.
CallListTools ==
  /\ fOp = "listTools"
  /\ Len(fOuts) < MaxInvocations
  /\ fOuts' = Append(fOuts, StoredSchema(fArg.site, fArg.tool))
  /\ UNCHANGED <<fOp, fArg>>
  /\ UNCHANGED <<wsVars, httpVars, normVars>>

NextFn ==
  \/ CallCoerceValue
  \/ CallListTools
  \/ CallNormalizeSchema
  \/ CallUnwrap
  \/ CallNormalize

InitCalls == InitFn /\ IdleClient /\ IdleHttp /\ IdleNorm

SpecFn == InitCalls /\ [][NextFn]_vars

InitExecute == InitNorm /\ IdleClient /\ IdleHttp /\ IdleFn

SpecNorm == InitExecute /\ [][NextNorm]_vars

InitHttpCall == InitHttp /\ IdleClient /\ IdleNorm /\ IdleFn

SpecHttp == InitHttpCall /\ [][NextHttp]_vars

Init == InitClient /\ IdleHttp /\ IdleNorm /\ IdleFn

Next ==
  \/ SocketOpen
  \/ SocketRefused
  \/ SocketReset
  \/ SendOpen
  \/ SendConnecting
  \/ SendClosed
  \/ \E m \in Messages : ServerSend(m)
  \/ \E m \in Messages : OnMessage(m)

Spec == Init /\ [][Next]_vars

\* The event loop hands every received message to the listener. Nothing makes
\* the server, the network or the callers act.
SpecFair == Spec /\ WF_vars(\E m \in Messages : OnMessage(m))

\* --------------------------------------------------------------- claims

\* C1: on one client, whatever the number of outstanding calls and the order
\* in which replies arrive, a call that has completed completed with the
\* inbound message whose id is the id allocated to that call.
C1_ReplyMatchesCallId ==
  \A c \in 1..Len(calls) :
    calls[c].state = "resolved" => calls[c].reply.id = calls[c].id

\* Two calls are outstanding at once and the later one has been answered first.
C1_Witness ==
  /\ Len(calls) >= 2
  /\ calls[1].state = "suspended"
  /\ calls[2].state = "resolved"
  /\ calls[2].reply.id = calls[2].id

ParsedBody ==
  IF BranchesOnContentKind(hRoute) /\ hCtype = "sse"
    THEN IF IsNullish(hLast) THEN EmptyObject ELSE hLast
    ELSE LET text == Utf8Decode(hBody, FALSE, FALSE).out
         IN IF IsJSON(text) THEN JSONParse(text) ELSE NullV

C4_ErrorEnvelopeIsFailure ==
  \A c \in 1..Len(calls) :
    (calls[c].state = "resolved" /\ calls[c].reply.kind = "error")
      => calls[c].outcome # "success"

\* C5: a call whose request was written to the open socket and that is still
\* outstanding when the channel is closed is eventually failed (it does not
\* stay suspended).
C5_ClosedChannelFailsPending ==
  \A c \in 1..MaxCalls :
    [](  (/\ wsState = "CLOSED"
          /\ Len(calls) >= c
          /\ calls[c].id \in wire
          /\ calls[c].state = "suspended")
      => <>(Len(calls) >= c /\ calls[c].state # "suspended"))

\* C6: when a reply declared as one JSON document does not parse, the execute
\* call does not end as a success.
C6_JsonParseErrorPropagates ==
  (/\ hPc = "done"
   /\ hRoute \in {RouteExec1, RouteExec2}
   /\ hCtype = "json"
   /\ ~IsJSON(Utf8Decode(hBody, FALSE, FALSE).out))
    => hOutcome.kind # "success"

\* The read loop over the whole body delivered as one read (no read at all
\* when the body is empty).
OneRead(route, body) ==
  IF body = <<>> THEN SseStart ELSE SseRead(route, SseStart, body)

\* C7: however the body of an event stream is split into reads, the execute
\* call ends as it ends when the same bytes come as one read.
C7_SplitInvariance ==
  (hPc = "done" /\ hRoute \in {RouteExec1, RouteExec2} /\ hCtype = "sse")
    => hOutcome = StreamEndOutcome(hRoute, hStatus, OneRead(hRoute, hBody).last)

\* C8: an event stream that ends with no parsed data object gives a success
\* (the empty result), not an error, when the status is a success.
C8_EmptyStreamIsEmptyResult ==
  (/\ hPc = "done"
   /\ hRoute \in {RouteExec1, RouteTools4, RouteTools}
   /\ hCtype = "sse"
   /\ hStatus \in 200..299
   /\ IsNullish(hLast))
    => hOutcome.kind = "success"

\* ---- the normalizer

\* The reasons of the log, as the normalizer words them.
MissingRequiredReason == "Required field missing; set to null"
UnmatchedOptionalReason == "No matching argument found; left undefined"
PassthroughExtraReason == "Extra argument preserved (not in schema)"

SchemaKeys(schema) == {schema.properties[i].key : i \in 1..Len(schema.properties)}

\* The reasons logged for a target key.
LogsOf(logs, target) ==
  {logs[i].reason : i \in {j \in 1..Len(logs) : logs[j].targetKey = target}}

\* The handler normalized the caller's arguments against a schema.
Normalized ==
  /\ nPc \in {"fetching", "done"}
  /\ nVariant \in {VariantChecked, VariantUnchecked}
  /\ nSchema.present

\* No raw key matches the schema key: not by its normalized name, not by a
\* synonym of its concept, and not by the similarity of the tokens of the
\* schema key and of the raw key's name.
NoRawKeyMatches(schemaKey, rawEntries) ==
  LET norms == {normalizeFieldName(rawEntries[i].key) : i \in 1..Len(rawEntries)}
      candidates == globalConceptSynonyms(guessConceptForSchemaKey(schemaKey))
  IN /\ normalizeFieldName(schemaKey) \notin norms
     /\ \A i \in 1..Len(candidates) : normalizeFieldName(candidates[i]) \notin norms
     /\ \A i \in 1..Len(rawEntries) :
          ~AtLeastThreshold(tokenSimilarity(schemaKey, rawEntries[i].key))

\* The same, with the similarity taken as the matching loop takes it: between
\* the schema key and the normalized form of the raw key.
NoEntryMatches(schemaKey, rawEntries) ==
  LET map == BuildNormalizedMap(rawEntries, <<>>) IN
  /\ DirectMatch(map, schemaKey) = NoEntry
  /\ SynonymMatch(map, schemaKey) = NoEntry
  /\ ~FuzzyBest(map, 1, schemaKey, NoBest).found

\* What is claimed of a schema property that nothing matched.
NoMatchOutcome(k) ==
  IF k \in nSchema.required
    THEN /\ HasOwnOnly(k, nResult.normalized)
         /\ ObjGet(nResult.normalized, k) = JsNull
         /\ LogsOf(nResult.logs, k) = {MissingRequiredReason}
    ELSE /\ ~HasOwnOnly(k, nResult.normalized)
         /\ LogsOf(nResult.logs, k) = {UnmatchedOptionalReason}

\* C2: when the normalizer leaves a required property unresolved, the handler
\* answers with the normalized map and the log and calls no fetch.
C2_MissingRequiredStopsBeforeFetch ==
  (/\ nPc \in {"fetching", "done"}
   /\ \E k \in nSchema.required : IsNullish2(nResult.normalized, k))
    => (/\ ~nSent
        /\ nOutcome.kind = "missing_required"
        /\ nOutcome.normalized = nResult.normalized
        /\ nOutcome.logs = nResult.logs)

\* C9: every raw key that is no key of the schema is in the output under its
\* own name with its own value, and the log has its passthrough-extra entry.
C9_ExtrasPreserved ==
  Normalized =>
    \A i \in 1..Len(nRaw) :
      nRaw[i].key \notin SchemaKeys(nSchema) =>
        /\ HasOwnOnly(nRaw[i].key, nResult.normalized)
        /\ ObjGet(nResult.normalized, nRaw[i].key) = nRaw[i].value
        /\ PassthroughExtraReason \in LogsOf(nResult.logs, nRaw[i].key)

\* C10: a schema property that no raw key matches by any strategy is null in
\* the output and logged missing-required when it is required, and is absent
\* from the output and logged unmatched-optional when it is not.
C10_NoMatchOutcome ==
  Normalized =>
    \A k \in SchemaKeys(nSchema) : NoRawKeyMatches(k, nRaw) => NoMatchOutcome(k)

\* The no-match branch by itself: a property that the matching loop matched
\* with no entry of the map has the outcome claimed.
NoMatchBranchOutcome ==
  Normalized =>
    \A k \in SchemaKeys(nSchema) : NoEntryMatches(k, nRaw) => NoMatchOutcome(k)

\* The reason of a synonym match, as the normalizer words it (the text goes on
\* to name the concept).
SynonymReason == "Concept-based synonym match"

\* The candidates of the schema key's concept whose normalized form is the
\* normalized form of a raw key, by their place in the declared list.
MatchingCandidates(schemaKey, rawEntries) ==
  LET candidates == globalConceptSynonyms(guessConceptForSchemaKey(schemaKey))
      norms == {normalizeFieldName(rawEntries[i].key) : i \in 1..Len(rawEntries)}
  IN {i \in 1..Len(candidates) : normalizeFieldName(candidates[i]) \in norms}

\* C11: a schema property that has a concept and no direct match takes the
\* value (coerced to the declared type) of a raw key whose normalized form is
\* that of the first name, in the declared order of the concept's list, that
\* matches any raw key, whatever the order of the raw arguments; the log
\* entry of the property is a synonym match from that raw key.
C11_SynonymInDeclaredOrder ==
  Normalized =>
    \A p \in 1..Len(nSchema.properties) :
      LET k == nSchema.properties[p].key
          hits == MatchingCandidates(k, nRaw)
          candidates == globalConceptSynonyms(guessConceptForSchemaKey(k))
          first == CHOOSE i \in hits : \A j \in hits : i <= j
      IN (/\ normalizeFieldName(k) \notin
                {normalizeFieldName(nRaw[i].key) : i \in 1..Len(nRaw)}
          /\ hits # {})
           => \E i \in 1..Len(nRaw) :
                /\ normalizeFieldName(nRaw[i].key) = normalizeFieldName(candidates[first])
                /\ HasOwnOnly(k, nResult.normalized)
                /\ ObjGet(nResult.normalized, k) =
                     coerceValue(nRaw[i].value, nSchema.properties[p].type)
                /\ \E l \in 1..Len(nResult.logs) :
                     /\ nResult.logs[l].targetKey = k
                     /\ nResult.logs[l].fromKey = nRaw[i].key
                     /\ nResult.logs[l].reason = SynonymReason
                /\ LogsOf(nResult.logs, k) = {SynonymReason}

\* recipient_email was given as email and as to, email first among the raw
\* arguments, and has the value of to, the first name of the list.
C11_Witness ==
  /\ Normalized
  /\ Len(nRaw) = 2
  /\ nRaw[1].key = <<"e", "m", "a", "i", "l">>
  /\ nRaw[2].key = <<"t", "o">>
  /\ HasOwnOnly(SchemaKeyList[1], nResult.normalized)
  /\ ObjGet(nResult.normalized, SchemaKeyList[1]) = nRaw[2].value
  /\ LogsOf(nResult.logs, SchemaKeyList[1]) = {SynonymReason}

\* The score the fuzzy loop gives a raw key: that of the map entry the key
\* was stored under.
FuzzyScore(schemaKey, rawKey) ==
  tokenSimilarity(schemaKey, normalizeFieldName(rawKey))

\* C12: when a schema property is matched by similarity and two raw keys have
\* the same score, at or above the threshold, with no key scoring higher, the
\* property has the value of the one that comes first among the raw
\* arguments.
C12_FuzzyTieTakesFirst ==
  Normalized =>
    \A p \in 1..Len(nSchema.properties) :
      LET k == nSchema.properties[p].key
          score(i) == FuzzyScore(k, nRaw[i].key)
      IN (/\ normalizeFieldName(k) \notin
                {normalizeFieldName(nRaw[i].key) : i \in 1..Len(nRaw)}
          /\ MatchingCandidates(k, nRaw) = {})
           => \A i, j \in 1..Len(nRaw) :
                (/\ i < j
                 /\ AtLeastThreshold(score(i))
                 /\ score(i) = score(j)
                 /\ \A l \in 1..Len(nRaw) : ~ScoreGreater(score(l), score(i))
                 /\ \A l \in 1..(i - 1) : ScoreGreater(score(i), score(l)))
                  => /\ HasOwnOnly(k, nResult.normalized)
                     /\ ObjGet(nResult.normalized, k) =
                          coerceValue(nRaw[i].value, nSchema.properties[p].type)

\* The values the specification reads as numbers: a number, or a string that
\* is a numeral.
ParsesAsNumber(value) ==
  value.t = "number" \/ (value.t = "string" /\ value.v \in NumericStrings)

\* C13: coercion to number or integer turns a value that parses as a number
\* into that number and returns every other value unchanged.
C13_NumberCoercion ==
  (fOp = "coerceValue" /\ fArg.type \in {"number", "integer"}) =>
    \A i \in 1..Len(fOuts) :
      fOuts[i] = IF ParsesAsNumber(fArg.value)
                   THEN NumberV(fArg.value.v)
                   ELSE fArg.value

OptionalFields == {"session", "memory", "time_info"}

\* The payload unwrap starts from, as the specification words it:
\* rawResult.result if rawResult has that member, rawResult otherwise.
PayloadOf(rawResult) ==
  IF rawResult.t = "object" /\ "result" \in OwnKeys(rawResult.entries)
    THEN ObjGet(rawResult.entries, "result")
    ELSE rawResult

\* The multi-step case: the tool is the multi-step one and the payload holds
\* results at data.data.
MultiStepCase(toolName, rawResult) ==
  /\ toolName = MultiStepTool
  /\ ~NullishV(Member(NestedData(PayloadOf(rawResult)), "results"))

\* C15: in the multi-step case unwrap returns an object whose members are
\* results and those of session, memory and time_info that data.data holds,
\* each with its upstream value.
C15_MultiStepFlattened ==
  (fOp = "unwrap" /\ MultiStepCase(fArg.toolName, fArg.rawResult)) =>
    \A i \in 1..Len(fOuts) :
      LET dd == NestedData(PayloadOf(fArg.rawResult))
      IN /\ fOuts[i].t = "object"
         /\ OwnKeys(fOuts[i].entries) =
              {"results"} \cup (OptionalFields \cap OwnKeys(dd.entries))
         /\ \A k \in OwnKeys(fOuts[i].entries) :
              Member(fOuts[i], k) = Member(dd, k)

\* C16: outside the multi-step case unwrap returns the starting payload
\* unchanged: rawResult.result if present, rawResult itself otherwise.
C16_OtherwiseUnchanged ==
  (fOp = "unwrap" /\ ~MultiStepCase(fArg.toolName, fArg.rawResult)) =>
    \A i \in 1..Len(fOuts) : fOuts[i] = PayloadOf(fArg.rawResult)

\* The two shapes the specification recognizes: an object schema, and a
\* sequence of field descriptors.
IsObjectSchema(input) ==
  /\ input.t = "object"
  /\ Member(input, "type") = StringV("object")
  /\ Member(input, "properties").t = "object"

IsFieldSequence(input) == input.t = "array" /\ Len(input.items) > 0

\* An object schema with empty properties and empty (or no) required.
IsEmptySchema(schema) ==
  /\ schema.t = "object"
  /\ Member(schema, "type") = StringV("object")
  /\ Member(schema, "properties") = ObjectV(<<>>)
  /\ \/ Member(schema, "required") = Undefined
     \/ Member(schema, "required") = ArrayV(<<>>)

\* C17: normalizeSchema returns the empty object schema for every input that
\* is absent, not an object, empty or of an unrecognized shape.
C17_FallbackIsEmptySchema ==
  (/\ fOp = "normalizeSchema"
   /\ ~IsObjectSchema(fArg.input)
   /\ ~IsFieldSequence(fArg.input)) =>
    \A i \in 1..Len(fOuts) : IsEmptySchema(fOuts[i])

\* The listener is called with m: the message leaves the inbox of a socket
\* that stays open.
Delivered(m) == wsState' = "OPEN" /\ m \in inbox /\ m \notin inbox'

\* C18: when the listener receives a message whose id is missing or matches
\* no pending entry, the pending map is unchanged and no call is resolved.
C18_UnmatchedMessageDropped ==
  [][\A m \in Messages :
       (Delivered(m) /\ (m.id = NoId \/ m.id \notin DOMAIN pending)) =>
         (pending' = pending /\ calls' = calls)]_vars

\* The listener was called with a message that has no id, or an id no call
\* gets, while every call made was waiting for its reply.
C18_Witness ==
  /\ handled # NoMsg
  /\ handled.id \in {NoId, IdOf(MaxCalls + 1)}
  /\ Len(calls) = MaxCalls
  /\ \A c \in 1..Len(calls) :
       calls[c].state = "suspended" /\ calls[c].id \in DOMAIN pending

\* C19: a waiting call stays waiting, and its entry stays in the pending map,
\* over every step in which the listener is not called with a message that
\* carries its id: no timeout and no other path resolves it.
C19_NoReplyNoCompletion ==
  [][\A c \in 1..Len(calls) :
       (/\ calls[c].state = "suspended"
        /\ ~\E m \in Messages : m.id = calls[c].id /\ Delivered(m)) =>
         (/\ calls'[c].state = "suspended"
          /\ calls[c].id \in DOMAIN pending')]_vars

\* The socket is closed, so no reply can arrive; one call was answered and
\* a later one, whose request was written, still waits in the pending map.
C19_Witness ==
  /\ wsState = "CLOSED"
  /\ Len(calls) = MaxCalls
  /\ calls[1].state = "resolved"
  /\ calls[MaxCalls].state = "suspended"
  /\ calls[MaxCalls].id \in wire
  /\ calls[MaxCalls].id \in DOMAIN pending

\* The last data line of the whole body that parses, the final line counted
\* whether or not a newline follows it (null when no line parses).
LastDataOfBody(body) ==
  SseLines(Utf8Decode(body, FALSE, TRUE).out \o <<NL>>, NullV).last

\* C20: the result of an event stream is the JSON value of the last
\* data-prefixed line of the whole body that parses, also when that line is
\* the final one and no newline follows it.
C20_LastDataLineIsResult ==
  (hPc = "done" /\ hRoute \in {RouteExec1, RouteExec2} /\ hCtype = "sse")
    => hOutcome = StreamEndOutcome(hRoute, hStatus, LastDataOfBody(hBody))

\* What the handler took for the reply: the last data line that parsed, or
\* the parsed JSON body (null when there is none).
AcceptedEnvelope ==
  IF hCtype = "sse" THEN hLast
  ELSE LET text == Utf8Decode(hBody, FALSE, FALSE).out
       IN IF IsJSON(text) THEN JSONParse(text) ELSE NullV

\* The id of an inbound value, for an execute request: that of the request
\* (R and E answer it), another one (F, T), or none (a value that is no
\* envelope).
EnvelopeId(v) ==
  IF v \in {<<"R">>, <<"E">>} THEN "request"
  ELSE IF v \in {<<"F">>, <<"T">>} THEN "other"
  ELSE "none"

\* C21: in the per-call HTTP variant the envelope taken as the result of a
\* call carries the id of the request sent for that call.
C21_ResultCarriesRequestId ==
  (/\ hPc = "done"
   /\ hRoute \in {RouteExec1, RouteExec2}
   /\ hCtype \in {"sse", "json"}
   /\ hOutcome.kind = "success"
   /\ ~IsNullish(AcceptedEnvelope))
    => EnvelopeId(AcceptedEnvelope) = "request"

\* The reasons of the three matches.
MatchReasons ==
  {"Direct key match (normalized)", SynonymReason, "Fuzzy token similarity match"}

\* The place of the first raw key that has the normalized form.
FirstWithForm(rawEntries, form) ==
  CHOOSE i \in 1..Len(rawEntries) :
    /\ normalizeFieldName(rawEntries[i].key) = form
    /\ \A j \in 1..(i - 1) : normalizeFieldName(rawEntries[j].key) # form

\* C22: when raw keys share a normalized form, a match on that form assigns
\* the value of the first of them and logs the first of them as the source.
C22_FirstOccurrenceWins ==
  Normalized =>
    \A l \in 1..Len(nResult.logs) :
      nResult.logs[l].reason \in MatchReasons =>
        LET k == nResult.logs[l].targetKey
            p == CHOOSE q \in 1..Len(nSchema.properties) :
                   nSchema.properties[q].key = k
            first == FirstWithForm(nRaw,
                                   normalizeFieldName(nResult.logs[l].fromKey))
        IN /\ nResult.logs[l].fromKey = nRaw[first].key
           /\ ObjGet(nResult.normalized, k) =
                coerceValue(nRaw[first].value, nSchema.properties[p].type)

\* The raw key is the source of a direct, synonym or fuzzy match.
Consumed(logs, rawKey) ==
  \E l \in 1..Len(logs) :
    logs[l].reason \in MatchReasons /\ logs[l].fromKey = rawKey

\* The raw key was copied to the output as an extra argument.
CopiedAsExtra(logs, rawKey) ==
  \E l \in 1..Len(logs) :
    /\ logs[l].reason = PassthroughExtraReason
    /\ logs[l].targetKey = rawKey

\* C23: the raw keys copied to the output as passthrough-extra are exactly
\* the raw keys that no schema property consumed.
C23_ExtrasAreTheUnconsumed ==
  Normalized =>
    \A i \in 1..Len(nRaw) :
      CopiedAsExtra(nResult.logs, nRaw[i].key) <=> ~Consumed(nResult.logs, nRaw[i].key)

FuzzyReason == "Fuzzy token similarity match"

\* normalize was called on a schema with properties and on an arguments
\* object, and has returned.
NormalizeReturned ==
  /\ fOp = "normalizeMCPArguments"
  /\ fOuts # <<>>
  /\ fArg.schema.present
  /\ fArg.rawArgs # NoArgs

\* C24: for a schema property with no direct and no synonym match, the raw
\* key whose own name has the strictly highest Jaccard similarity with the
\* property name, at least 0.6, is fuzzy-matched: the property has its
\* value, and the log records the fuzzy match from that key with the score.
C24_FuzzyOnOwnTokens ==
  NormalizeReturned =>
    LET raw == fArg.rawArgs
        map == BuildNormalizedMap(raw, <<>>)
    IN \A p \in 1..Len(fArg.schema.properties) :
         LET k == fArg.schema.properties[p].key
             score(i) == tokenSimilarity(k, raw[i].key)
         IN (DirectMatch(map, k) = NoEntry /\ SynonymMatch(map, k) = NoEntry) =>
              \A i \in 1..Len(raw) :
                (/\ AtLeastThreshold(score(i))
                 /\ \A j \in 1..Len(raw) :
                      j # i => ScoreGreater(score(i), score(j))) =>
                  \A o \in 1..Len(fOuts) :
                    /\ HasOwnOnly(k, fOuts[o].normalized)
                    /\ ObjGet(fOuts[o].normalized, k) =
                         coerceValue(raw[i].value, fArg.schema.properties[p].type)
                    /\ \E l \in 1..Len(fOuts[o].logs) :
                         fOuts[o].logs[l] = LogEntry(k, raw[i].key, FuzzyReason, score(i))

\* C25: coercion to object returns a non-array object unchanged, returns for
\* a string its JSON parse result when that is a non-array object, and
\* returns the original value in every other case.
C25_ObjectCoercion ==
  (fOp = "coerceValue" /\ fArg.type = "object") =>
    \A i \in 1..Len(fOuts) :
      LET value == fArg.value
      IN /\ fOuts[i] =
              IF value.t = "string" /\ ParsesAsJson(value.v)
                 /\ ParsedJson(value.v).t = "object"
                THEN ParsedJson(value.v)
                ELSE value
         /\ (fOuts[i] = value \/ fOuts[i].t = "object")

\* The body without its data lines that do not parse (a line ends at its
\* newline).
RECURSIVE WithoutUnparsable(_)
WithoutUnparsable(bytes) ==
  IF \A i \in 1..Len(bytes) : bytes[i] # NL
    THEN bytes
    ELSE LET n == CHOOSE i \in 1..Len(bytes) :
                    bytes[i] = NL /\ \A j \in 1..(i - 1) : bytes[j] # NL
             line == SubSeq(bytes, 1, n - 1)
             rest == SubSeq(bytes, n + 1, Len(bytes))
             raw == SubSeq(line, Len(DataPrefix) + 1, Len(line))
         IN IF StartsWith(line, DataPrefix) /\ ~IsJSON(raw)
              THEN WithoutUnparsable(rest)
              ELSE SubSeq(bytes, 1, n) \o WithoutUnparsable(rest)

\* No read can end inside a character: the decoder streams, or every
\* character of the body is one byte.
WholeCharacters ==
  StreamingDecode(hRoute) \/ \A i \in 1..Len(hBody) : hBody[i] # "C3"

RequiredNames(schema) ==
  IF Member(schema, "required").t = "array"
    THEN {Member(schema, "required").items[i].v :
            i \in 1..Len(Member(schema, "required").items)}
    ELSE {}

PropertyKeys(schema) ==
  IF Member(schema, "properties").t = "object"
    THEN OwnKeys(Member(schema, "properties").entries)
    ELSE {}

\* C27: in every schema normalizeSchema returns, each name in required is a
\* key of properties.
C27_RequiredAreProperties ==
  fOp = "normalizeSchema" =>
    \A i \in 1..Len(fOuts) : RequiredNames(fOuts[i]) \subseteq PropertyKeys(fOuts[i])

\* The schema the entry declares: inputSchema, or input_schema.
DeclaredSchema(tool) ==
  IF ~NullishV(Member(tool, "inputSchema")) THEN Member(tool, "inputSchema")
  ELSE Member(tool, "input_schema")

\* The schema has a property, or a field with a name.
NonEmptySchema(schema) ==
  \/ PropertyKeys(schema) # {}
  \/ /\ schema.t = "array"
     /\ \E i \in 1..Len(schema.items) : Truthy(Member(schema.items[i], "name"))

\* C28: the schema stored for an entry of result.tools is the normalization
\* of the entry's inputSchema (or input_schema); a tool that declares a
\* non-empty input schema is not stored with an empty schema.
C28_StoredSchemaIsDeclared ==
  (fOp = "listTools" /\ ~NullishV(DeclaredSchema(fArg.tool))) =>
    \A i \in 1..Len(fOuts) :
      /\ fOuts[i] = normalizeSchema(DraftOf(fArg.site), DeclaredSchema(fArg.tool))
      /\ NonEmptySchema(DeclaredSchema(fArg.tool)) => PropertyKeys(fOuts[i]) # {}

\* The number an id is the decimal text of.
NumberOfId(id) == CHOOSE n \in 0..(MaxCalls + 1) : IdOf(n) = id

\* C29: the ids of the calls made on one client are pairwise distinct and
\* strictly increasing in the order of the calls, whether the request was
\* written, dropped, or the write threw.
C29_IdsDistinctIncreasing ==
  \A c, d \in 1..Len(calls) :
    c < d => /\ calls[c].id # calls[d].id
             /\ NumberOfId(calls[c].id) < NumberOfId(calls[d].id)

\* Every call was made; the write of the first one threw and a later one
\* waits in the pending map.
C29_Witness ==
  /\ Len(calls) = MaxCalls
  /\ calls[1].state = "threw"
  /\ calls[MaxCalls].state = "suspended"
  /\ calls[MaxCalls].id \in DOMAIN pending

\* C30: a call is resolved at most once. Once a call is resolved its id is
\* not a key of the pending map and the call never changes again; a step in
\* which the listener is called with another message of the same id leaves
\* the pending map and every call as they were.
C30_ResolvedAtMostOnce ==
  [][\A c \in 1..Len(calls) :
       calls[c].state = "resolved" =>
         /\ calls[c].id \notin DOMAIN pending
         /\ calls[c].id \notin DOMAIN pending'
         /\ calls'[c] = calls[c]
         /\ \A m \in Messages :
              (Delivered(m) /\ m.id = calls[c].id) =>
                (pending' = pending /\ calls' = calls)]_vars

\* The listener was last called with a second message that carries the id of
\* a call already resolved with another message.
C30_Witness ==
  \E c \in 1..Len(calls) :
    /\ calls[c].state = "resolved"
    /\ handled # NoMsg
    /\ handled.id = calls[c].id
    /\ handled # calls[c].reply

====
